---- MODULE Spec2Model ----
(***************************************************************************)
(* Model of the Experiment Comparison Orchestrator of the Privacy          *)
(* Playground front end (the App component with the baseline / protected   *)
(* comparison): runComparison, runExperiment, runFederatedExperiment, the  *)
(* delayed ethics-prompt decision and the controls that feed them.         *)
(*                                                                         *)
(* Accuracies are in tenths of a percent (865 = 86.5%), epsilon in tenths  *)
(* (10 = 1.0), time in milliseconds.  One step of the model is one         *)
(* macrotask of the browser: a click handler, the settling of a fetch      *)
(* together with the continuation that follows it, or a timer callback.    *)
(***************************************************************************)
EXTENDS Integers, Sequences, FiniteSets, TLC

\* ---------------------------------------------------------------- bounds
MaxSubmissions == 2
StartTime == 100000
MaxElapsed == 33000
TickSteps == {3000, 26999, 27000}

\* -------------------------------------------------------------- constants
ETHICS_PROMPT_COOLDOWN_MS == 30000
PromptDelayMs == 3000

\* JavaScript's undefined for an optional number, null for a Result or a message
Undefined == -1
Null == [isNull |-> TRUE]
NullMsg == "<null>"
NoDetail == "<undefined>"

\* a || b on numbers: 0 and undefined are falsy
Or(a, b) == IF a = Undefined \/ a = 0 THEN b ELSE a

\* a || b on strings: undefined and the empty string are falsy
OrStr(a, b) == IF a = NoDetail \/ a = "" THEN b ELSE a

\* the values the epsilon slider offers (0.5, 1.0, 3.0, 10.0)
epsilonValues == <<5, 10, 30, 100>>
EpsilonChoices == {epsilonValues[1], epsilonValues[2]}

Aggregators == {"fedavg", "fedprox", "qffl", "scaffold", "fedadam"}
AggregatorChoices == {"fedavg", "scaffold"}

aggregatorMap_Typo(a) ==
    CASE a = "fedavg" -> "FedAvg"
      [] a = "fedprox" -> "FedProx"
      [] a = "qffl" -> "qFedAvg"
      [] a = "scaffold" -> "SCAFFOLD"
      [] a = "fedadam" -> "FedAdam"
      [] OTHER -> NoDetail

aggregatorMap(a) ==
    CASE a = "fedavg" -> "FedAvg"
      [] a = "fedprox" -> "FedProx"
      [] a = "qffl" -> "q-FedAvg"
      [] a = "scaffold" -> "SCAFFOLD"
      [] a = "fedadam" -> "FedAdam"
      [] OTHER -> NoDetail

backendAggregator(a) == OrStr(aggregatorMap(a), "FedAvg")

\* value and label of the aggregation options; the descriptions are display text
aggregatorOptions ==
    {[value |-> "fedavg", label |-> "FedAvg"],
     [value |-> "fedprox", label |-> "FedProx"],
     [value |-> "qffl", label |-> "q-FedAvg"],
     [value |-> "scaffold", label |-> "SCAFFOLD"],
     [value |-> "fedadam", label |-> "FedAdam"]}

getAggregatorLabel(value) ==
    IF \E o \in aggregatorOptions : o.value = value
    THEN (CHOOSE o \in aggregatorOptions : o.value = value).label
    ELSE value

\* --------------------------------------------------- the service's answers
\* kind: "ok" (2xx with a JSON body), "http" (non-2xx; detail is the body's
\* detail, NoDetail when the body has none, "Unknown error" when the body
\* is not JSON), "throw" (fetch rejected or a 2xx body that is not JSON)
BaselineAccs == {Undefined, 865}
PrivateAccs == {Undefined, 0, 840}
RealizedEps == {Undefined, 8}
FlAccs == {Undefined, 0, 850}
FlLosses == {Undefined, 15}
Details == {NoDetail, "Unknown error", "Service unavailable"}

\* the metrics of a body: all present, all absent, or exactly one absent
FullMetrics ==
    [f1_score |-> 800, precision |-> 750, recall |-> 700,
     samples_evaluated |-> 154, model_used |-> "FNN"]

NoMetrics ==
    [f1_score |-> Undefined, precision |-> Undefined, recall |-> Undefined,
     samples_evaluated |-> Undefined, model_used |-> NoDetail]

MetricProfiles ==
    {FullMetrics, NoMetrics} \cup
    {[FullMetrics EXCEPT ![f] = NoMetrics[f]] : f \in DOMAIN FullMetrics}

OkData(b, p, e, a, l, mt) ==
    [kind |-> "ok", detail |-> NoDetail, baseline_accuracy |-> b,
     private_accuracy |-> p, epsilon |-> e, accuracy |-> a, accuracy_loss |-> l,
     f1_score |-> mt.f1_score, precision |-> mt.precision, recall |-> mt.recall,
     samples_evaluated |-> mt.samples_evaluated, model_used |-> mt.model_used]

Failure(k, d) ==
    [kind |-> k, detail |-> d, baseline_accuracy |-> Undefined,
     private_accuracy |-> Undefined, epsilon |-> Undefined,
     accuracy |-> Undefined, accuracy_loss |-> Undefined,
     f1_score |-> Undefined, precision |-> Undefined, recall |-> Undefined,
     samples_evaluated |-> Undefined, model_used |-> NoDetail]

Failures == {Failure("http", d) : d \in Details} \cup {Failure("throw", "Failed to fetch")}

BaselineResponses ==
    {OkData(b, Undefined, Undefined, Undefined, Undefined, mt) :
        b \in BaselineAccs, mt \in MetricProfiles} \cup Failures

DpResponses ==
    {OkData(b, p, e, Undefined, Undefined, mt) :
        b \in BaselineAccs, p \in PrivateAccs, e \in RealizedEps,
        mt \in MetricProfiles} \cup Failures

FlResponses ==
    {OkData(b, Undefined, Undefined, a, l, mt) :
        b \in BaselineAccs, a \in FlAccs, l \in FlLosses,
        mt \in MetricProfiles} \cup Failures

\* the message of the Error the catch block receives
ErrorMessage(resp, generic) ==
    IF resp.kind = "http" THEN OrStr(resp.detail, generic) ELSE resp.detail

\* ----------------------------------------------------------------- state
VARIABLES
    activeTab,              \* 'playground' | 'survey'
    trainingMode,           \* 'dp' | 'fl'
    aggregator,
    config,                 \* [dpEnabled, epsilon]
    status,                 \* 'idle' | 'running'
    comparison,             \* [baseline, private]
    error,
    showEthicsPrompt,
    lastEthicsPromptTime,
    run,                    \* the runComparison call in progress and what it closed over
    timers,                 \* pending setTimeout callbacks
    clock,                  \* Date.now()
    nsub,                   \* submissions started so far
    cur,                    \* the latest submission: what it issued and how it went
    firings,                \* the times at which a timer callback set the prompt
    stale,                  \* runComparison calls in flight that a later call superseded
    app,                    \* the single-result App component (frontend/src/App.tsx)
    dash                    \* the DashboardPage component

vars == <<activeTab, trainingMode, aggregator, config, status, comparison, error,
          showEthicsPrompt, lastEthicsPromptTime, run, timers, clock, nsub, cur, firings,
          stale, app, dash>>

NoRun == [pc |-> "none"]

\* frontend/src/App.tsx after its first render: the useState initial values,
\* an empty file input, no timer pending and no request in flight
AppInit ==
    [config |-> [sampleDataset |-> "diabetes", modelType |-> "fnn",
                 dpEnabled |-> FALSE, epsilon |-> 10],
     status |-> "idle", result |-> Null, error |-> NullMsg,
     showAdvanced |-> FALSE, uploadInfo |-> Null, file |-> FALSE,
     timers |-> {}, runs |-> {}, n |-> 0]

\* DashboardPage before it is mounted: the useState initial values
DashInit ==
    [data |-> Null, loading |-> TRUE, error |-> NullMsg,
     mounted |-> FALSE, interval |-> FALSE, inflight |-> {}, started |-> 0,
     outcome |-> <<>>]

NoSubmission == [id |-> 0]

Init ==
    /\ activeTab = "playground"
    /\ trainingMode = "dp"
    /\ aggregator = "fedavg"
    /\ config = [dpEnabled |-> TRUE, epsilon |-> 10]
    /\ status = "idle"
    /\ comparison = [baseline |-> Null, private |-> Null]
    /\ error = NullMsg
    /\ showEthicsPrompt = FALSE
    /\ lastEthicsPromptTime = 0
    /\ run = NoRun
    /\ timers = {}
    /\ clock = StartTime
    /\ nsub = 0
    /\ cur = NoSubmission
    /\ firings = <<>>
    /\ stale = {}
    /\ app = AppInit
    /\ dash = DashInit


\* ------------------------------------------------- raw response -> Result
BaselineResult_NoDefaults(data) ==
    [baselineAccuracy |-> Or(data.baseline_accuracy, 0),
     privateAccuracy |-> Undefined,
     accuracyLoss |-> Undefined,
     f1Score |-> data.f1_score,
     precision |-> data.precision,
     recall |-> data.recall,
     epsilon |-> Undefined,
     samplesEvaluated |-> data.samples_evaluated,
     modelUsed |-> OrStr(data.model_used, "Unknown"),
     aggregator |-> NoDetail,
     strategy |-> "dp"]

\* runExperiment(true): the Result of a baseline run
BaselineResult(data) ==
    [baselineAccuracy |-> Or(data.baseline_accuracy, 0),
     privateAccuracy |-> Undefined,
     accuracyLoss |-> Undefined,
     f1Score |-> data.f1_score,
     precision |-> data.precision,
     recall |-> data.recall,
     epsilon |-> Undefined,
     samplesEvaluated |-> Or(data.samples_evaluated, 0),
     modelUsed |-> OrStr(data.model_used, "Unknown"),
     aggregator |-> NoDetail,
     strategy |-> "dp"]

DpResult_RequestedWins(data, cfg) ==
    [baselineAccuracy |-> Or(data.private_accuracy, Or(data.baseline_accuracy, 0)),
     privateAccuracy |-> data.private_accuracy,
     accuracyLoss |-> data.accuracy_loss,
     f1Score |-> data.f1_score,
     precision |-> data.precision,
     recall |-> data.recall,
     epsilon |-> Or(cfg.epsilon, data.epsilon),
     samplesEvaluated |-> Or(data.samples_evaluated, 0),
     modelUsed |-> OrStr(data.model_used, "Unknown"),
     aggregator |-> NoDetail,
     strategy |-> "dp"]

\* runExperiment(false): the Result of a differential-privacy run
DpResult(data, cfg) ==
    [baselineAccuracy |-> Or(data.private_accuracy, Or(data.baseline_accuracy, 0)),
     privateAccuracy |-> data.private_accuracy,
     accuracyLoss |-> data.accuracy_loss,
     f1Score |-> data.f1_score,
     precision |-> data.precision,
     recall |-> data.recall,
     epsilon |-> Or(data.epsilon, cfg.epsilon),
     samplesEvaluated |-> Or(data.samples_evaluated, 0),
     modelUsed |-> OrStr(data.model_used, "Unknown"),
     aggregator |-> NoDetail,
     strategy |-> "dp"]

\* runFederatedExperiment: the Result of a federated run
FlResult(data, agg) ==
    LET baselineAcc == Or(data.baseline_accuracy, 0)
        flAccuracy == Or(data.accuracy, 0)
    IN [baselineAccuracy |-> baselineAcc,
        privateAccuracy |-> flAccuracy,
        accuracyLoss |-> IF data.accuracy_loss # Undefined
                         THEN data.accuracy_loss ELSE baselineAcc - flAccuracy,
        f1Score |-> data.f1_score,
        precision |-> data.precision,
        recall |-> data.recall,
        epsilon |-> Undefined,
        samplesEvaluated |-> Or(data.samples_evaluated, 0),
        modelUsed |-> getAggregatorLabel(agg) \o " (Federated)",
        aggregator |-> backendAggregator(agg),
        strategy |-> "fl"]

\* ------------------------------------------------------------ the render
isLoading_Never == FALSE

isLoading == status = "running"

hasResults == comparison.baseline # Null \/ comparison.private # Null

\* the ethics prompt modal is in the DOM
ModalShown == showEthicsPrompt /\ comparison.private # Null

\* the "Baseline (No Privacy)" card
BaselineCardShown ==
    activeTab = "playground" /\ hasResults /\ ~isLoading /\ comparison.baseline # Null

\* the "With Privacy" card and the "Federated" card
DpCardShown ==
    /\ activeTab = "playground" /\ hasResults /\ ~isLoading
    /\ comparison.private # Null /\ trainingMode = "dp" /\ config.dpEnabled

FlCardShown ==
    /\ activeTab = "playground" /\ hasResults /\ ~isLoading
    /\ comparison.private # Null /\ trainingMode = "fl"

\* the method named in the title of the federated card
CardTitleName == getAggregatorLabel(OrStr(comparison.private.aggregator, aggregator))

\* the accuracy shown on the protected card, and the "Loss:" / "Diff vs Baseline:" line
CardAccuracy(r) == Or(r.privateAccuracy, r.baselineAccuracy)

LossShown == (DpCardShown \/ FlCardShown) /\ comparison.baseline # Null

CardLoss == comparison.baseline.baselineAccuracy - CardAccuracy(comparison.private)

\* ------------------------------------------------------ history records
NewHist(id, mode, cfg) ==
    [id |-> id, mode |-> mode, dpEnabled |-> cfg.dpEnabled, calls |-> <<"baseline">>,
     base |-> "pending", prot |-> "none", scheduled |-> FALSE, done |-> FALSE]

Outcome(resp) == IF resp.kind = "ok" THEN "ok" ELSE "fail"

\* ------------------------------------------------------------- actions
\* runComparison after runExperiment(true): a second call follows on the
\* federated path, and on the differential-privacy path when privacy is enabled
NeedsSecondCall_Always(r) == TRUE

NeedsSecondCall(r) == r.trainingMode = "fl" \/ r.config.dpEnabled

\* the setTimeout of the differential-privacy branch; the federated branch sets none
TimersAfterDp(r) ==
    {[id |-> r.id, due |-> clock + PromptDelayMs,
      lastEthicsPromptTime |-> r.lastEthicsPromptTime]}

TimersAfterFl_AsDp(r) == TimersAfterDp(r)

TimersAfterFl(r) == {}

\* click on the run button: runComparison up to the first await, which is the
\* fetch of runExperiment(true)
Submit ==
    /\ activeTab = "playground"
    /\ ~isLoading
    /\ nsub < MaxSubmissions
    /\ comparison' = [baseline |-> Null, private |-> Null]
    /\ showEthicsPrompt' = FALSE
    /\ error' = NullMsg
    /\ status' = "running"
    /\ nsub' = nsub + 1
    /\ run' = [pc |-> "baseline", id |-> nsub + 1, trainingMode |-> trainingMode,
               config |-> config, aggregator |-> aggregator,
               lastEthicsPromptTime |-> lastEthicsPromptTime]
    /\ cur' = NewHist(nsub + 1, trainingMode, config)
    /\ UNCHANGED <<activeTab, trainingMode, aggregator, config, lastEthicsPromptTime,
                   timers, clock, firings, stale, app, dash>>

AfterSettle_DropOnError(resp, slot, result, generic) ==
    /\ comparison' = IF resp.kind = "ok"
                     THEN [comparison EXCEPT ![slot] = result]
                     ELSE [baseline |-> Null, private |-> Null]
    /\ error' = IF resp.kind = "ok" THEN error ELSE ErrorMessage(resp, generic)

\* what the rest of runExperiment / runFederatedExperiment does to the
\* comparison and the error once its fetch has settled
AfterSettle(resp, slot, result, generic) ==
    /\ comparison' = IF resp.kind = "ok"
                     THEN [comparison EXCEPT ![slot] = result] ELSE comparison
    /\ error' = IF resp.kind = "ok" THEN error ELSE ErrorMessage(resp, generic)

\* the baseline fetch settles; runExperiment(true) finishes and runComparison
\* goes on to its next call, or returns when privacy is disabled
BaselineSettles(resp) ==
    /\ run.pc = "baseline"
    /\ LET more == NeedsSecondCall(run)
           next == IF run.trainingMode = "fl" THEN "federated" ELSE "protected"
           h == [cur EXCEPT !.base = Outcome(resp)]
       IN /\ comparison' = IF resp.kind = "ok"
                           THEN [comparison EXCEPT !.baseline = BaselineResult(resp)]
                           ELSE comparison
          /\ error' = IF more THEN NullMsg
                      ELSE IF resp.kind = "ok" THEN error
                      ELSE ErrorMessage(resp, "Failed to run experiment")
          /\ status' = IF more THEN "running" ELSE "idle"
          /\ run' = IF more THEN [run EXCEPT !.pc = next] ELSE NoRun
          /\ cur' = IF more
                     THEN [h EXCEPT !.calls = Append(@, next), !.prot = "pending"]
                     ELSE [h EXCEPT !.done = TRUE]
    /\ UNCHANGED <<activeTab, trainingMode, aggregator, config, showEthicsPrompt,
                   lastEthicsPromptTime, timers, clock, nsub, firings, stale, app, dash>>

ProtectedSettles_StuckOnError(resp) ==
    /\ run.pc = "protected"
    /\ AfterSettle(resp, "private", DpResult(resp, run.config), "Failed to run experiment")
    /\ status' = IF resp.kind = "ok" THEN "idle" ELSE "running"
    /\ timers' = timers \cup TimersAfterDp(run)
    /\ run' = NoRun
    /\ cur' = [cur EXCEPT !.prot = Outcome(resp), !.scheduled = TRUE, !.done = TRUE]
    /\ UNCHANGED <<activeTab, trainingMode, aggregator, config, showEthicsPrompt,
                   lastEthicsPromptTime, clock, nsub, firings, stale, app, dash>>

\* the differential-privacy fetch settles; runExperiment(false) finishes and
\* runComparison schedules the prompt decision
ProtectedSettles(resp) ==
    /\ run.pc = "protected"
    /\ AfterSettle(resp, "private", DpResult(resp, run.config), "Failed to run experiment")
    /\ status' = "idle"
    /\ timers' = timers \cup TimersAfterDp(run)
    /\ run' = NoRun
    /\ cur' = [cur EXCEPT !.prot = Outcome(resp), !.scheduled = TRUE, !.done = TRUE]
    /\ UNCHANGED <<activeTab, trainingMode, aggregator, config, showEthicsPrompt,
                   lastEthicsPromptTime, clock, nsub, firings, stale, app, dash>>

FederatedSettles_NeedsBaseline(resp) ==
    /\ run.pc = "federated"
    /\ comparison' = IF resp.kind = "ok" /\ comparison.baseline # Null
                     THEN [comparison EXCEPT !.private = FlResult(resp, run.aggregator)]
                     ELSE comparison
    /\ error' = IF resp.kind = "ok" THEN error
                ELSE ErrorMessage(resp, "Failed to run federated experiment")
    /\ status' = "idle"
    /\ timers' = timers \cup TimersAfterFl(run)
    /\ run' = NoRun
    /\ cur' = [cur EXCEPT !.prot = Outcome(resp), !.done = TRUE,
                           !.scheduled = TimersAfterFl(run) # {}]
    /\ UNCHANGED <<activeTab, trainingMode, aggregator, config, showEthicsPrompt,
                   lastEthicsPromptTime, clock, nsub, firings, stale, app, dash>>

\* the federated fetch settles; runFederatedExperiment and runComparison finish
FederatedSettles(resp) ==
    /\ run.pc = "federated"
    /\ AfterSettle(resp, "private", FlResult(resp, run.aggregator),
                   "Failed to run federated experiment")
    /\ status' = "idle"
    /\ timers' = timers \cup TimersAfterFl(run)
    /\ run' = NoRun
    /\ cur' = [cur EXCEPT !.prot = Outcome(resp), !.done = TRUE,
                           !.scheduled = TimersAfterFl(run) # {}]
    /\ UNCHANGED <<activeTab, trainingMode, aggregator, config, showEthicsPrompt,
                   lastEthicsPromptTime, clock, nsub, firings, stale, app, dash>>

TimerFires_StoresDueTime(t) ==
    /\ t \in timers
    /\ clock >= t.due
    /\ timers' = timers \ {t}
    /\ IF clock - t.lastEthicsPromptTime >= ETHICS_PROMPT_COOLDOWN_MS
       THEN /\ showEthicsPrompt' = TRUE
            /\ lastEthicsPromptTime' = t.due
            /\ firings' = Append(firings, clock)
       ELSE UNCHANGED <<showEthicsPrompt, lastEthicsPromptTime, firings>>
    /\ UNCHANGED <<activeTab, trainingMode, aggregator, config, status, comparison,
                   error, run, clock, nsub, cur, stale, app, dash>>

\* the callback of setTimeout(..., 3000); it compares with the
\* lastEthicsPromptTime its runComparison closed over
TimerFires(t) ==
    /\ t \in timers
    /\ clock >= t.due
    /\ timers' = timers \ {t}
    /\ IF clock - t.lastEthicsPromptTime >= ETHICS_PROMPT_COOLDOWN_MS
       THEN /\ showEthicsPrompt' = TRUE
            /\ lastEthicsPromptTime' = clock
            /\ firings' = Append(firings, clock)
       ELSE UNCHANGED <<showEthicsPrompt, lastEthicsPromptTime, firings>>
    /\ UNCHANGED <<activeTab, trainingMode, aggregator, config, status, comparison,
                   error, run, clock, nsub, cur, stale, app, dash>>

\* time passes
Tick(d) ==
    /\ clock + d <= StartTime + MaxElapsed
    /\ clock' = clock + d
    /\ UNCHANGED <<activeTab, trainingMode, aggregator, config, status, comparison,
                   error, showEthicsPrompt, lastEthicsPromptTime, run, timers, nsub,
                   cur, firings, stale, app, dash>>

\* the training-strategy radio buttons
SetTrainingMode(m) ==
    /\ activeTab = "playground"
    /\ trainingMode # m
    /\ trainingMode' = m
    /\ config' = [config EXCEPT !.dpEnabled = (m = "dp")]
    /\ UNCHANGED <<activeTab, aggregator, status, comparison, error, showEthicsPrompt,
                   lastEthicsPromptTime, run, timers, clock, nsub, cur, firings, stale, app, dash>>

\* the "Enable Differential Privacy" checkbox
SetDpEnabled(b) ==
    /\ activeTab = "playground"
    /\ trainingMode = "dp"
    /\ config.dpEnabled # b
    /\ config' = [config EXCEPT !.dpEnabled = b]
    /\ UNCHANGED <<activeTab, trainingMode, aggregator, status, comparison, error,
                   showEthicsPrompt, lastEthicsPromptTime, run, timers, clock, nsub,
                   cur, firings, stale, app, dash>>

\* the epsilon slider
SetEpsilon(e) ==
    /\ activeTab = "playground"
    /\ trainingMode = "dp" /\ config.dpEnabled
    /\ config.epsilon # e
    /\ config' = [config EXCEPT !.epsilon = e]
    /\ UNCHANGED <<activeTab, trainingMode, aggregator, status, comparison, error,
                   showEthicsPrompt, lastEthicsPromptTime, run, timers, clock, nsub,
                   cur, firings, stale, app, dash>>

\* the aggregation-method selector
SetAggregator(a) ==
    /\ activeTab = "playground"
    /\ trainingMode = "fl"
    /\ aggregator # a
    /\ aggregator' = a
    /\ UNCHANGED <<activeTab, trainingMode, config, status, comparison, error,
                   showEthicsPrompt, lastEthicsPromptTime, run, timers, clock, nsub,
                   cur, firings, stale, app, dash>>

\* "Take the Ethics Survey"
handleSurveyRedirect ==
    /\ ModalShown
    /\ showEthicsPrompt' = FALSE
    /\ activeTab' = "survey"
    /\ UNCHANGED <<trainingMode, aggregator, config, status, comparison, error,
                   lastEthicsPromptTime, run, timers, clock, nsub, cur, firings, stale, app, dash>>

skipSurvey_ClearsResults ==
    /\ ModalShown
    /\ showEthicsPrompt' = FALSE
    /\ comparison' = [baseline |-> Null, private |-> Null]
    /\ UNCHANGED <<activeTab, trainingMode, aggregator, config, status,
                   error, lastEthicsPromptTime, run, timers, clock, nsub, cur, firings, stale, app, dash>>

\* "Maybe Later"
skipSurvey ==
    /\ ModalShown
    /\ showEthicsPrompt' = FALSE
    /\ UNCHANGED <<activeTab, trainingMode, aggregator, config, status, comparison,
                   error, lastEthicsPromptTime, run, timers, clock, nsub, cur, firings, stale, app, dash>>

\* the tabs of the header
SetActiveTab(t) ==
    /\ activeTab # t
    /\ activeTab' = t
    /\ UNCHANGED <<trainingMode, aggregator, config, status, comparison, error,
                   showEthicsPrompt, lastEthicsPromptTime, run, timers, clock, nsub,
                   cur, firings, stale, app, dash>>

\* the answers the service gives in the orchestration specification: one
\* successful body per endpoint, or a failure
LeanBaseline ==
    {OkData(865, Undefined, Undefined, Undefined, Undefined, FullMetrics)} \cup Failures
LeanDp == {OkData(865, 840, 8, Undefined, Undefined, FullMetrics)} \cup Failures
LeanFl == {OkData(865, Undefined, Undefined, 850, Undefined, FullMetrics)} \cup Failures

Next ==
    \/ Submit
    \/ \E resp \in LeanBaseline : BaselineSettles(resp)
    \/ \E resp \in LeanDp : ProtectedSettles(resp)
    \/ \E resp \in LeanFl : FederatedSettles(resp)
    \/ \E t \in timers : TimerFires(t)
    \/ \E d \in TickSteps : Tick(d)
    \/ \E m \in {"dp", "fl"} : SetTrainingMode(m)
    \/ \E b \in BOOLEAN : SetDpEnabled(b)
    \/ handleSurveyRedirect
    \/ skipSurvey
    \/ \E t \in {"playground", "survey"} : SetActiveTab(t)

Spec == Init /\ [][Next]_vars

\* the parsing and rendering specification: the service answers with any
\* body of the response sets, the user moves every control, no time passes
NextData ==
    \/ Submit
    \/ \E resp \in BaselineResponses : BaselineSettles(resp)
    \/ \E resp \in DpResponses : ProtectedSettles(resp)
    \/ \E resp \in FlResponses : FederatedSettles(resp)
    \/ \E m \in {"dp", "fl"} : SetTrainingMode(m)
    \/ \E b \in BOOLEAN : SetDpEnabled(b)
    \/ \E e \in EpsilonChoices : SetEpsilon(e)
    \/ \E a \in AggregatorChoices : SetAggregator(a)

SpecData == Init /\ [][NextData]_vars

\* ================================================================ claims
Issued(kind) == \E i \in 1..Len(cur.calls) : cur.calls[i] = kind

Submitted == cur.id > 0

DpSubmission == Submitted /\ cur.mode = "dp" /\ cur.dpEnabled

\* C1: in differential-privacy mode with privacy enabled the protected call
\* is issued only after the baseline call of the same submission has resolved
\* successfully; after a failed baseline call no protected call is issued.
C1_ProtectedOnlyAfterBaselineSuccess ==
    (DpSubmission /\ Issued("protected")) => cur.base = "ok"

\* C2: any two consecutive firings of the reflective prompt are at least
\* 30000 ms apart.
C2_FiringsCooldownApart ==
    \A i \in 1..(Len(firings) - 1) :
        firings[i + 1] - firings[i] >= ETHICS_PROMPT_COOLDOWN_MS

\* C3: when a submission has finished and any of its calls failed, the
\* error message is set, and no call was issued twice.
C3_FailureIsReported ==
    (Submitted /\ cur.done) =>
        /\ (cur.base = "fail" \/ cur.prot = "fail") => error # NullMsg
        /\ Len(cur.calls) <= 2
        /\ \A i, j \in 1..Len(cur.calls) : cur.calls[i] = cur.calls[j] => i = j

\* C4: when the baseline call succeeded and the protected call failed, the
\* submission ends with the error message set, the baseline result stored
\* (and its card rendered on the playground tab) and no protected result.
C4_PartialSuccessPreserved ==
    (Submitted /\ cur.done /\ cur.base = "ok" /\ cur.prot = "fail") =>
        /\ error # NullMsg
        /\ comparison.baseline # Null
        /\ comparison.private = Null
        /\ activeTab = "playground" => BaselineCardShown

C4_Witness ==
    /\ Submitted /\ cur.done /\ cur.base = "ok" /\ cur.prot = "fail"
    /\ activeTab = "playground" /\ BaselineCardShown

\* C5: whenever the comparison holds a protected result produced by a
\* differential-privacy run, it also holds the baseline result.
C5_ProtectedImpliesBaseline ==
    (comparison.private # Null /\ comparison.private.strategy = "dp") =>
        comparison.baseline # Null

\* C6: a submission in differential-privacy mode with privacy disabled issues
\* exactly one call, the baseline call; the protected result stays null and no
\* prompt decision is scheduled for it.
C6_NoPrivacySingleCall ==
    (Submitted /\ cur.mode = "dp" /\ ~cur.dpEnabled) =>
        /\ cur.calls = <<"baseline">>
        /\ run.pc \in {"none", "baseline"}
        /\ comparison.private = Null
        /\ ~cur.scheduled
        /\ \A t \in timers : t.id # cur.id

C6_Witness ==
    /\ Submitted /\ cur.mode = "dp" /\ ~cur.dpEnabled
    /\ cur.done /\ cur.base = "ok" /\ comparison.baseline # Null

\* C7: whenever the loss line of the protected card is rendered, it shows the
\* baseline accuracy minus the accuracy the service returned for the
\* protected run, also when that accuracy is 0.
C7_LossIsBaselineMinusProtected ==
    (LossShown /\ comparison.private.privateAccuracy # Undefined) =>
        CardLoss = comparison.baseline.baselineAccuracy
                     - comparison.private.privateAccuracy

\* C8: while the first call of a new submission is in flight the comparison
\* is empty, and the prompt is shown only once the prompt decision of the
\* latest submission has been taken: a decision scheduled by an earlier
\* submission never shows the prompt during or after the new submission.
C8_SubmitClearsPendingReflection ==
    /\ run.pc = "baseline" => comparison = [baseline |-> Null, private |-> Null]
    /\ ModalShown => (cur.scheduled /\ \A t \in timers : t.id # cur.id)

\* C9: the steps of a federated submission schedule no prompt decision, do
\* not set the prompt visible and leave lastEthicsPromptTime alone; a prompt
\* decision is scheduled only by the step that completes the protected call
\* of a differential-privacy submission.
C9_FederatedNeverReflects ==
    [][/\ (trainingMode = "fl" /\ nsub' # nsub) =>
             /\ timers' = timers /\ ~showEthicsPrompt'
             /\ lastEthicsPromptTime' = lastEthicsPromptTime
       /\ (run.pc # "none" /\ run.trainingMode = "fl" /\ run' # run) =>
             /\ timers' = timers /\ (showEthicsPrompt' => showEthicsPrompt)
             /\ lastEthicsPromptTime' = lastEthicsPromptTime
             /\ ~cur'.scheduled
       /\ ~(timers' \subseteq timers) =>
             /\ run.pc = "protected" /\ run.trainingMode = "dp"
             /\ run.config.dpEnabled /\ run'.pc = "none"]_vars

C9_Witness ==
    /\ Submitted /\ cur.mode = "fl" /\ cur.done /\ cur.prot = "ok"
    /\ comparison.private # Null /\ comparison.private.strategy = "fl"

\* C10: the prompt decision of a submission whose protected call failed
\* leaves lastEthicsPromptTime unchanged, and lastEthicsPromptTime is written
\* only by a step that surfaces the prompt.
C10_TimestampOnlyWhenSurfaced ==
    [][/\ \A t \in timers \ timers' :
             (t.id = cur.id /\ cur.prot = "fail") =>
                 lastEthicsPromptTime' = lastEthicsPromptTime
       /\ lastEthicsPromptTime' # lastEthicsPromptTime => ModalShown']_vars

\* C11: while a call of a submission is in flight the status is 'running' and
\* the run button is disabled, and a submission starts only when no call is in
\* flight, so two submissions never have calls in flight at the same time.
C11_SubmitOnlyWhenTerminal ==
    [][/\ run.pc # "none" => status = "running"
       /\ nsub' # nsub => (run.pc = "none" /\ status = "idle")]_vars

C11_Witness == run.pc = "protected" /\ status = "running" /\ nsub = 2

\* ------------------------------------------------ runComparison re-entered
\* runComparison itself, without the disabled attribute of the run button:
\* it has no guard of its own, so a call made while an earlier call is in
\* flight starts a second chain of awaits next to the first
runComparison ==
    /\ nsub < MaxSubmissions
    /\ comparison' = [baseline |-> Null, private |-> Null]
    /\ showEthicsPrompt' = FALSE
    /\ error' = NullMsg
    /\ status' = "running"
    /\ nsub' = nsub + 1
    /\ stale' = IF run.pc = "none" THEN stale ELSE stale \cup {run}
    /\ run' = [pc |-> "baseline", id |-> nsub + 1, trainingMode |-> trainingMode,
               config |-> config, aggregator |-> aggregator,
               lastEthicsPromptTime |-> lastEthicsPromptTime]
    /\ cur' = NewHist(nsub + 1, trainingMode, config)
    /\ UNCHANGED <<activeTab, trainingMode, aggregator, config, lastEthicsPromptTime,
                   timers, clock, firings, app, dash>>

\* the baseline fetch of a superseded call settles: nothing tags the call, so
\* runExperiment(true) writes its result as usual and the chain goes on
StaleBaselineSettles(r, resp) ==
    /\ r \in stale
    /\ r.pc = "baseline"
    /\ LET more == NeedsSecondCall(r)
           next == IF r.trainingMode = "fl" THEN "federated" ELSE "protected"
       IN /\ comparison' = IF resp.kind = "ok"
                           THEN [comparison EXCEPT !.baseline = BaselineResult(resp)]
                           ELSE comparison
          /\ error' = IF more THEN NullMsg
                      ELSE IF resp.kind = "ok" THEN error
                      ELSE ErrorMessage(resp, "Failed to run experiment")
          /\ status' = IF more THEN "running" ELSE "idle"
          /\ stale' = IF more THEN (stale \ {r}) \cup {[r EXCEPT !.pc = next]}
                      ELSE stale \ {r}
    /\ UNCHANGED <<activeTab, trainingMode, aggregator, config, showEthicsPrompt,
                   lastEthicsPromptTime, run, timers, clock, nsub, cur, firings, app, dash>>

\* the second fetch of a superseded call settles
StaleSecondSettles(r, resp) ==
    /\ r \in stale
    /\ r.pc \in {"protected", "federated"}
    /\ IF r.pc = "protected"
       THEN /\ AfterSettle(resp, "private", DpResult(resp, r.config),
                           "Failed to run experiment")
            /\ timers' = timers \cup TimersAfterDp(r)
       ELSE /\ AfterSettle(resp, "private", FlResult(resp, r.aggregator),
                           "Failed to run federated experiment")
            /\ timers' = timers \cup TimersAfterFl(r)
    /\ status' = "idle"
    /\ stale' = stale \ {r}
    /\ UNCHANGED <<activeTab, trainingMode, aggregator, config, showEthicsPrompt,
                   lastEthicsPromptTime, run, clock, nsub, cur, firings, app, dash>>

NextReentrant ==
    \/ runComparison
    \/ \E resp \in LeanBaseline : BaselineSettles(resp)
    \/ \E resp \in LeanDp : ProtectedSettles(resp)
    \/ \E resp \in LeanFl : FederatedSettles(resp)
    \/ \E r \in stale, resp \in LeanBaseline : StaleBaselineSettles(r, resp)
    \/ \E r \in stale :
          \E resp \in (IF r.pc = "federated" THEN LeanFl ELSE LeanDp) :
              StaleSecondSettles(r, resp)
    \/ \E m \in {"dp", "fl"} : SetTrainingMode(m)
    \/ \E b \in BOOLEAN : SetDpEnabled(b)

SpecReentrant == Init /\ [][NextReentrant]_vars

Fairness ==
    /\ WF_vars(\E resp \in LeanBaseline : BaselineSettles(resp))
    /\ WF_vars(\E resp \in LeanDp : ProtectedSettles(resp))
    /\ WF_vars(\E resp \in LeanFl : FederatedSettles(resp))

\* the orchestration without the clock: the settling of the calls does not
\* depend on the time or on the prompt
NextLive ==
    \/ Submit
    \/ \E resp \in LeanBaseline : BaselineSettles(resp)
    \/ \E resp \in LeanDp : ProtectedSettles(resp)
    \/ \E resp \in LeanFl : FederatedSettles(resp)
    \/ \E m \in {"dp", "fl"} : SetTrainingMode(m)
    \/ \E b \in BOOLEAN : SetDpEnabled(b)
    \/ \E t \in {"playground", "survey"} : SetActiveTab(t)

SpecLive == Init /\ [][NextLive]_vars /\ Fairness

\* C13: every submission eventually reaches status 'idle' with no call in
\* flight, whatever its calls answered, and the next submission starts with
\* the error message cleared.
C13_AlwaysBackToIdle ==
    /\ (run.pc # "none") ~> (run.pc = "none" /\ status = "idle")
    /\ [][nsub' # nsub => error' = NullMsg]_vars

C13_Witness ==
    /\ Submitted /\ cur.done /\ cur.base = "fail" /\ cur.prot = "fail"
    /\ run.pc = "none" /\ status = "idle" /\ error # NullMsg

\* C14: with lastEthicsPromptTime = T the prompt decision refuses while
\* now - T < 30000 and fires once now - T >= 30000, and it fires when no
\* prompt has fired before.
C14_CooldownBoundary ==
    [][(timers' # timers /\ timers' \subseteq timers) =>
          /\ lastEthicsPromptTime = 0 => firings' # firings
          /\ (lastEthicsPromptTime > 0
                /\ clock - lastEthicsPromptTime < ETHICS_PROMPT_COOLDOWN_MS)
             => firings' = firings
          /\ clock - lastEthicsPromptTime >= ETHICS_PROMPT_COOLDOWN_MS
             => firings' # firings]_vars

\* ------------------------------------------------ the aggregation registry
\* the body of the request of runFederatedExperiment (dataset and model_type
\* are copied from the configuration)
FlRequest(r) == [aggregation |-> backendAggregator(r.aggregator)]

\* the ids the registry is asked about: the five of the table and one outside
RegistryInputs == Aggregators \cup {"krum"}

InitRegistry ==
    /\ activeTab = "playground"
    /\ trainingMode = "fl"
    /\ aggregator \in RegistryInputs
    /\ config = [dpEnabled |-> FALSE, epsilon |-> 10]
    /\ status = "idle"
    /\ comparison = [baseline |-> Null, private |-> Null]
    /\ error = NullMsg
    /\ showEthicsPrompt = FALSE
    /\ lastEthicsPromptTime = 0
    /\ run = NoRun
    /\ timers = {}
    /\ clock = StartTime
    /\ nsub = 0
    /\ cur = NoSubmission
    /\ firings = <<>>
    /\ stale = {}
    /\ app = AppInit
    /\ dash = DashInit

NextRegistry ==
    \/ Submit
    \/ \E resp \in LeanBaseline : BaselineSettles(resp)
    \/ \E resp \in LeanFl : FederatedSettles(resp)
    \/ \E a \in Aggregators : SetAggregator(a)

SpecRegistry == InitRegistry /\ [][NextRegistry]_vars

ExperimentRequest_IgnoresRunKind(runBaseline, cfg) ==
    [dp_enabled |-> cfg.dpEnabled,
     epsilon |-> IF cfg.dpEnabled THEN cfg.epsilon ELSE Undefined]

\* the body of the request of runExperiment (dataset and model_type are
\* copied from the configuration); a null epsilon is Undefined here
ExperimentRequest(runBaseline, cfg) ==
    LET dpEnabledForRun == IF runBaseline THEN FALSE ELSE cfg.dpEnabled
    IN [dp_enabled |-> dpEnabledForRun,
        epsilon |-> IF dpEnabledForRun THEN cfg.epsilon ELSE Undefined]

\* the request of the call in flight: runComparison calls runExperiment(true),
\* then runExperiment(false) or runFederatedExperiment()
InFlightRequest ==
    CASE run.pc = "baseline" -> ExperimentRequest(TRUE, run.config)
      [] run.pc = "protected" -> ExperimentRequest(FALSE, run.config)
      [] run.pc = "federated" -> FlRequest(run)

\* C17: the request of a baseline run carries privacy disabled and no privacy
\* budget, whatever the configured strategy, budget or training mode.
C17_BaselineSuppressesPrivacy ==
    run.pc = "baseline" =>
        /\ InFlightRequest.dp_enabled = FALSE
        /\ InFlightRequest.epsilon = Undefined

C17_Witness ==
    /\ run.pc = "baseline" /\ run.trainingMode = "dp"
    /\ run.config.dpEnabled /\ run.config.epsilon = 5

\* C18: the request of a protected differential-privacy run carries the
\* requested budget, and the budget stored in its result is the one the
\* service returned, or the requested one when the service returned none.
C18_RealizedBudgetWins ==
    [][/\ run.pc = "protected" =>
             /\ InFlightRequest.dp_enabled
             /\ InFlightRequest.epsilon = run.config.epsilon
       /\ (run.pc = "protected" /\ run'.pc = "none") =>
             \A resp \in DpResponses :
                 (resp.kind = "ok" /\ ProtectedSettles(resp)) =>
                     comparison'.private.epsilon =
                         IF resp.epsilon # Undefined THEN resp.epsilon
                         ELSE run.config.epsilon]_vars

C18_Witness ==
    /\ comparison.private # Null /\ comparison.private.strategy = "dp"
    /\ comparison.private.epsilon = 8 /\ cur.done

\* ----------------------------------------------- tolerance of the gateway
Dflt(x) == IF x = Undefined THEN 0 ELSE x

\* the metrics of a stored Result against the body it was built from
MetricsKept(r, resp) ==
    /\ r.f1Score = resp.f1_score
    /\ r.precision = resp.precision
    /\ r.recall = resp.recall
    /\ r.samplesEvaluated = Dflt(resp.samples_evaluated)

\* the render calls toFixed / toLocaleString on these without a test
Renderable(r) ==
    r # Null => (r.baselineAccuracy # Undefined /\ r.samplesEvaluated # Undefined
                 /\ r.modelUsed # NoDetail)

\* C19: every successful body, whichever optional fields it lacks, is stored
\* as a Result (missing accuracy and sample count become 0, a missing model
\* label becomes 'Unknown', missing f1 / precision / recall stay absent) that
\* the cards can render; a failed call stores no Result.
C19_ToleratesMissingFields ==
    [][/\ Renderable(comparison'.baseline) /\ Renderable(comparison'.private)
       /\ (run.pc = "baseline" /\ run' # run) =>
             \A resp \in BaselineResponses : BaselineSettles(resp) =>
                 IF resp.kind = "ok"
                 THEN LET r == comparison'.baseline
                      IN /\ r # Null
                         /\ r.baselineAccuracy = Dflt(resp.baseline_accuracy)
                         /\ r.modelUsed = IF resp.model_used = NoDetail
                                          THEN "Unknown" ELSE resp.model_used
                         /\ MetricsKept(r, resp)
                 ELSE comparison'.baseline = Null
       /\ (run.pc = "protected" /\ run' # run) =>
             \A resp \in DpResponses : ProtectedSettles(resp) =>
                 IF resp.kind = "ok"
                 THEN LET r == comparison'.private
                      IN /\ r # Null
                         /\ r.privateAccuracy = resp.private_accuracy
                         /\ (resp.private_accuracy = Undefined
                               /\ resp.baseline_accuracy = Undefined)
                            => r.baselineAccuracy = 0
                         /\ r.modelUsed = IF resp.model_used = NoDetail
                                          THEN "Unknown" ELSE resp.model_used
                         /\ MetricsKept(r, resp)
                 ELSE comparison'.private = Null /\ error' # NullMsg
       /\ (run.pc = "federated" /\ run' # run) =>
             \A resp \in FlResponses : FederatedSettles(resp) =>
                 IF resp.kind = "ok"
                 THEN LET r == comparison'.private
                      IN /\ r # Null
                         /\ r.privateAccuracy = Dflt(resp.accuracy)
                         /\ r.baselineAccuracy = Dflt(resp.baseline_accuracy)
                         /\ MetricsKept(r, resp)
                 ELSE comparison'.private = Null /\ error' # NullMsg]_vars

C19_Witness ==
    /\ comparison.baseline # Null /\ comparison.private # Null
    /\ comparison.baseline.samplesEvaluated = 0
    /\ comparison.private.baselineAccuracy = 0
    /\ comparison.private.modelUsed = "Unknown"
    /\ comparison.private.f1Score = Undefined

\* C20: the prompt is shown only while no call is in flight, and the step
\* that answers it ("Take the Ethics Survey" or "Maybe Later") hides it and
\* leaves the comparison, the error message, the status (idle) and
\* lastEthicsPromptTime as they were.
C20_AcknowledgeOnlyHidesPrompt ==
    [][/\ ModalShown => (status = "idle" /\ run.pc = "none")
       /\ (ModalShown /\ ~showEthicsPrompt' /\ nsub' = nsub) =>
             /\ ~ModalShown'
             /\ comparison' = comparison
             /\ error' = error
             /\ status' = "idle"
             /\ lastEthicsPromptTime' = lastEthicsPromptTime
             /\ run' = run /\ timers' = timers]_vars

C20_Witness ==
    /\ nsub = 1 /\ firings # <<>> /\ ~showEthicsPrompt
    /\ comparison.private # Null /\ comparison.baseline # Null
    /\ activeTab = "survey" /\ status = "idle"

\* C21: on the federated path the federated call is issued once the baseline
\* call has settled, whether it succeeded or failed, and when the submission
\* has finished the comparison holds exactly the results of the calls that
\* succeeded, for each of the four combinations of outcomes.
C21_FederatedCallsIndependent ==
    (Submitted /\ cur.mode = "fl") =>
        /\ cur.base # "pending" => cur.calls = <<"baseline", "federated">>
        /\ cur.done =>
              /\ cur.base \in {"ok", "fail"} /\ cur.prot \in {"ok", "fail"}
              /\ (comparison.baseline # Null) <=> (cur.base = "ok")
              /\ (comparison.private # Null) <=> (cur.prot = "ok")
              /\ comparison.private # Null => comparison.private.strategy = "fl"

C21_Witness ==
    /\ Submitted /\ cur.mode = "fl" /\ cur.done
    /\ cur.base = "fail" /\ cur.prot = "ok"
    /\ comparison.baseline = Null /\ comparison.private # Null

\* the loss the prompt prints: comparison.baseline!.baselineAccuracy minus
\* comparison.private!.baselineAccuracy; the render throws when baseline is null
ModalLossDefined == comparison.baseline # Null

\* C22: whenever the reflective prompt is rendered (flag set and a protected
\* result present) the baseline result is present too, so the loss it prints
\* never dereferences a null baseline.
C22_ModalHasBaseline == ModalShown => ModalLossDefined

\* C23: the reflective prompt is never rendered while the protected result of
\* the comparison is a federated one: whenever it is rendered, that result has
\* strategy 'dp' and a defined epsilon.
C23_ModalOnlyForDpResult ==
    ModalShown => /\ comparison.private.strategy = "dp"
                  /\ comparison.private.epsilon # Undefined

\* C24: lastEthicsPromptTime never decreases; every write stores the current
\* time, which is at least the value stored before, and the prompt flag
\* becomes true only in a step that writes lastEthicsPromptTime.
C24_LastPromptTimeMonotone ==
    [][/\ clock' >= clock
       /\ lastEthicsPromptTime' >= lastEthicsPromptTime
       /\ firings' # firings =>
             /\ lastEthicsPromptTime' = clock
             /\ showEthicsPrompt'
       /\ (showEthicsPrompt' /\ ~showEthicsPrompt) =>
             /\ firings' # firings
             /\ lastEthicsPromptTime' = clock]_vars

C24_Witness ==
    /\ Len(firings) = 2 /\ firings[2] > firings[1]
    /\ lastEthicsPromptTime = firings[2]
    /\ clock > lastEthicsPromptTime

\* ====================================== the single-result App component
\* the variables of the comparison component, which this component leaves alone
comparisonVars ==
    <<activeTab, trainingMode, aggregator, config, status, comparison, error,
      showEthicsPrompt, lastEthicsPromptTime, run, timers, clock, nsub, cur, firings,
      stale>>

\* clicks that start a timer or a run, per behaviour
MaxRuns == 2

NoFileMessage == "Please select a CSV file first"

\* setConfig((prev) => ({ ...prev, ...newConfig }))
updateConfig(prev, newConfig) ==
    [k \in DOMAIN prev |-> IF k \in DOMAIN newConfig THEN newConfig[k] ELSE prev[k]]

\* the objects the four Quick Test buttons pass to updateConfig
QuickTests ==
    {[sampleDataset |-> "diabetes", modelType |-> "fnn", dpEnabled |-> FALSE],
     [sampleDataset |-> "diabetes", modelType |-> "fnn", dpEnabled |-> TRUE, epsilon |-> 10],
     [sampleDataset |-> "adult", modelType |-> "lr", dpEnabled |-> FALSE],
     [sampleDataset |-> "adult", modelType |-> "lr", dpEnabled |-> TRUE, epsilon |-> 30]}

\* what the checkbox and the slider pass to updateConfig (the values of the
\* two selectors are those the Quick Test buttons write)
ControlPatches ==
    {[dpEnabled |-> TRUE], [dpEnabled |-> FALSE], [epsilon |-> 5]}

\* the JSON body runExperiment posts to /api/experiment
AppTestRequest(cfg) ==
    [dataset |-> cfg.sampleDataset, model_type |-> cfg.modelType,
     dp_enabled |-> cfg.dpEnabled,
     epsilon |-> IF cfg.dpEnabled THEN cfg.epsilon ELSE Undefined]

\* the form runExperimentWithUpload posts to /api/experiment/upload
AppUploadRequest(cfg) ==
    [file |-> TRUE, dataset |-> cfg.sampleDataset, model_type |-> cfg.modelType,
     dp_enabled |-> cfg.dpEnabled,
     epsilon |-> IF cfg.dpEnabled /\ cfg.epsilon # 0 THEN cfg.epsilon ELSE Undefined]

\* setResult({...}): the fields of the body, copied without defaults
AppResult(data) ==
    [baselineAccuracy |-> data.baseline_accuracy,
     privateAccuracy |-> data.private_accuracy,
     accuracyLoss |-> data.accuracy_loss,
     f1Score |-> data.f1_score,
     precision |-> data.precision,
     recall |-> data.recall,
     epsilon |-> data.epsilon,
     samplesEvaluated |-> data.samples_evaluated,
     modelUsed |-> data.model_used]

\* the answers of the service to this component
AppResponses ==
    {OkData(865, 840, 8, Undefined, Undefined, FullMetrics),
     Failure("http", NoDetail), Failure("throw", "Failed to fetch")}

AppIsLoading == app.status = "running"

\* runExperiment / runExperimentWithUpload up to the fetch: the component is
\* set running, error and result are cleared and the request leaves
AppStartRun(kind, origin, request, wanted) ==
    [app EXCEPT !.status = "running", !.error = NullMsg, !.result = Null,
                !.runs = @ \cup {[id |-> app.n + 1, kind |-> kind, origin |-> origin,
                                  request |-> request, wanted |-> wanted]},
                !.n = @ + 1]

\* click on a Quick Test button: updateConfig, then setTimeout(runExperiment, 100)
\* with the runExperiment of the render the click happened in
QuickTest(b) ==
    /\ ~AppIsLoading
    /\ app.n + Cardinality(app.timers) < MaxRuns
    /\ app' = [app EXCEPT
                 !.config = updateConfig(@, b),
                 !.timers = @ \cup {[id |-> app.n + Cardinality(app.timers) + 1,
                                     config |-> app.config,
                                     wanted |-> updateConfig(app.config, b)]}]
    /\ UNCHANGED <<comparisonVars, dash>>

\* 100 ms later: the runExperiment handed to setTimeout runs
QuickTimerFires(t) ==
    /\ t \in app.timers
    /\ app' = [AppStartRun("test", "quick", AppTestRequest(t.config),
                           AppTestRequest(t.wanted))
                 EXCEPT !.timers = @ \ {t}]
    /\ UNCHANGED <<comparisonVars, dash>>

\* "Run with Test Data"
AppRunExperiment ==
    /\ ~AppIsLoading
    /\ app.n + Cardinality(app.timers) < MaxRuns
    /\ app' = AppStartRun("test", "button", AppTestRequest(app.config),
                          AppTestRequest(app.config))
    /\ UNCHANGED <<comparisonVars, dash>>

runExperimentWithUpload_SendsAnyway ==
    /\ app.showAdvanced /\ app.uploadInfo # Null
    /\ ~AppIsLoading
    /\ app.n + Cardinality(app.timers) < MaxRuns
    /\ app' = AppStartRun("upload", "button", AppUploadRequest(app.config),
                          AppUploadRequest(app.config))
    /\ UNCHANGED <<comparisonVars, dash>>

\* "Run with Upload"
runExperimentWithUpload ==
    /\ app.showAdvanced /\ app.uploadInfo # Null
    /\ ~AppIsLoading
    /\ app.n + Cardinality(app.timers) < MaxRuns
    /\ app' = IF ~app.file
              THEN [app EXCEPT !.error = NoFileMessage]
              ELSE AppStartRun("upload", "button", AppUploadRequest(app.config),
                               AppUploadRequest(app.config))
    /\ UNCHANGED <<comparisonVars, dash>>

\* the fetch of a run settles: setResult or setError, then setStatus('idle')
AppRunSettles(r, resp) ==
    /\ r \in app.runs
    /\ app' = [app EXCEPT
                 !.result = IF resp.kind = "ok" THEN AppResult(resp) ELSE @,
                 !.error = IF resp.kind = "ok" THEN @
                           ELSE ErrorMessage(resp, "Failed to run experiment"),
                 !.status = "idle",
                 !.runs = @ \ {r}]
    /\ UNCHANGED <<comparisonVars, dash>>

\* the selectors, the checkbox and the slider (shown while privacy is enabled)
AppControl(p) ==
    /\ "epsilon" \in DOMAIN p => app.config.dpEnabled
    /\ updateConfig(app.config, p) # app.config
    /\ app' = [app EXCEPT !.config = updateConfig(@, p)]
    /\ UNCHANGED <<comparisonVars, dash>>

\* "Show/Hide Advanced": hiding unmounts the file input, showing mounts an empty one
ToggleAdvanced ==
    /\ app' = [app EXCEPT !.showAdvanced = ~@, !.file = FALSE]
    /\ UNCHANGED <<comparisonVars, dash>>

\* the user picks a file, or cancels the picker
handleFileChange(picked) ==
    /\ app.showAdvanced
    /\ app.file # picked \/ (app.uploadInfo # Null) # picked
    /\ app' = [app EXCEPT !.file = picked,
                          !.uploadInfo = IF picked THEN [fileName |-> "data.csv"] ELSE Null]
    /\ UNCHANGED <<comparisonVars, dash>>

clearUpload ==
    /\ app.showAdvanced /\ app.uploadInfo # Null
    /\ app' = [app EXCEPT !.file = FALSE, !.uploadInfo = Null]
    /\ UNCHANGED <<comparisonVars, dash>>

\* the quick tests and the run button, with the controls of the configuration
NextQuick ==
    \/ \E b \in QuickTests : QuickTest(b)
    \/ \E t \in app.timers : QuickTimerFires(t)
    \/ AppRunExperiment
    \/ \E r \in app.runs, resp \in AppResponses : AppRunSettles(r, resp)
    \/ \E p \in ControlPatches : AppControl(p)

SpecQuick == Init /\ [][NextQuick]_vars

\* the two run buttons and the upload field
NextUpload ==
    \/ AppRunExperiment
    \/ runExperimentWithUpload
    \/ \E r \in app.runs, resp \in AppResponses : AppRunSettles(r, resp)
    \/ \E p \in ControlPatches : AppControl(p)
    \/ ToggleAdvanced
    \/ \E picked \in BOOLEAN : handleFileChange(picked)
    \/ clearUpload

SpecUpload == Init /\ [][NextUpload]_vars

\* C25: a run started by a Quick Test button sends the configuration that
\* click's updateConfig wrote (dataset, model type, dp_enabled, epsilon),
\* whatever the configuration was before, and clicks within the 100 ms never
\* lead to two runs in flight at once.
C25_QuickTestRunsItsConfig ==
    /\ \A r \in app.runs : r.origin = "quick" => r.request = r.wanted
    /\ Cardinality(app.runs) <= 1

\* C26: runExperimentWithUpload with no file selected sets the error
\* 'Please select a CSV file first', sends no request and leaves the status
\* and the stored result unchanged; an upload request leaves only when a file
\* is selected.
C26_NoFileNoRequest ==
    [][/\ (runExperimentWithUpload /\ ~app.file) =>
             /\ app'.error = NoFileMessage
             /\ app'.runs = app.runs /\ app'.n = app.n
             /\ app'.status = app.status
             /\ app'.result = app.result
       /\ \A r \in app'.runs \ app.runs : r.kind = "upload" => app.file]_vars

C26_Witness ==
    /\ app.error = NoFileMessage /\ app.result # Null
    /\ app.status = "idle" /\ app.runs = {}
    /\ app.uploadInfo # Null /\ ~app.file

\* C27: whenever the status is 'idle', the stored result and the error
\* message are never both non-null: an error is never shown next to the
\* result of an earlier run.
C27_ResultOrErrorNotBoth ==
    app.status = "idle" => ~(app.result # Null /\ app.error # NullMsg)

\* ================================================= the DashboardPage
\* loads started per behaviour
MaxLoads == 3

LoadFailedMessage ==
    "Failed to load data. Make sure the backend is running and has results files."

\* loadData up to its await: setLoading(true), setError(null) and the request
\* of visualizationService.getAllData() leaves
loadData ==
    [dash EXCEPT !.loading = TRUE, !.error = NullMsg,
                 !.inflight = @ \cup {dash.started + 1},
                 !.started = @ + 1,
                 !.outcome = Append(@, "pending")]

\* the effect of the first render: loadData() and setInterval(loadData, 30000)
DashMount ==
    /\ ~dash.mounted /\ dash.started = 0
    /\ dash' = [loadData EXCEPT !.mounted = TRUE, !.interval = TRUE]
    /\ UNCHANGED <<comparisonVars, app>>

\* the interval fires, 30 seconds after the previous start
DashIntervalFires ==
    /\ dash.interval
    /\ dash.started < MaxLoads
    /\ dash' = loadData
    /\ UNCHANGED <<comparisonVars, app>>

\* getAllData of load id resolves or rejects: setData or setError, then
\* setLoading(false); the setters of an unmounted component do nothing
DashLoadSettles(id, ok) ==
    /\ id \in dash.inflight
    /\ dash' = IF dash.mounted
               THEN [dash EXCEPT
                       !.data = IF ok THEN [load |-> id] ELSE @,
                       !.error = IF ok THEN @ ELSE LoadFailedMessage,
                       !.loading = FALSE,
                       !.inflight = @ \ {id},
                       !.outcome[id] = IF ok THEN "ok" ELSE "fail"]
               ELSE [dash EXCEPT
                       !.inflight = @ \ {id},
                       !.outcome[id] = IF ok THEN "ok" ELSE "fail"]
    /\ UNCHANGED <<comparisonVars, app>>

\* the cleanup of the effect: clearInterval(interval)
DashUnmount ==
    /\ dash.mounted
    /\ dash' = [dash EXCEPT !.mounted = FALSE, !.interval = FALSE]
    /\ UNCHANGED <<comparisonVars, app>>

NextDash ==
    \/ DashMount
    \/ DashIntervalFires
    \/ \E id \in dash.inflight, ok \in BOOLEAN : DashLoadSettles(id, ok)
    \/ DashUnmount

SpecDash == Init /\ [][NextDash]_vars

\* C28: whatever the interleaving of the initial load and the refresh loads,
\* once the load started last has completed successfully and no load is in
\* flight, loading is false, error is null and data holds the response of
\* that load; after unmount the interval starts no further load.
C28_LatestLoadWins ==
    /\ (dash.mounted /\ dash.started > 0 /\ dash.inflight = {}
          /\ dash.outcome[dash.started] = "ok") =>
             /\ ~dash.loading
             /\ dash.error = NullMsg
             /\ dash.data = [load |-> dash.started]
    /\ ~dash.mounted => ~dash.interval

====
